---- MODULE Spec2Model ----
(***************************************************************************)
(* Glider deployment ingest (gdamm_gdac.py, json2duckdb.py) and the        *)
(* geometry codec shared with the map renderer (gdamm_map.py).             *)
(*                                                                         *)
(* Text is modelled as a sequence of one-character strings, so that the    *)
(* formatting and the parsing of the code are computed, not assumed.       *)
(***************************************************************************)
EXTENDS Integers, Sequences, FiniteSets, TLC

----------------------------------------------------------------------------
(* Bounds of the model *)

\* largest surrogate id the sequence hands out: an import that would need a
\* larger one is not run
MaxId == 2
\* longest list of files found by a directory scan
MaxFiles == 2
\* longest sample sequence given to the codec on its own
MaxSamples == 2

\* longest feature list of a file whose every feature order is tried
MaxFeatures == 3

----------------------------------------------------------------------------
(* Python values *)

\* None, where a text may stand: no text has an element longer than a character
None == <<"None">>
\* a list of pairs that stands for the ValueError float() raised
ValueError == << <<"ValueError">> >>
\* the same for a single float
FloatError == [err |-> "ValueError"]

Digits == <<"0", "1", "2", "3", "4", "5", "6", "7", "8", "9">>

IsDigit(c) == \E i \in 1..10 : Digits[i] = c

DigitVal(c) == (CHOOSE i \in 1..10 : Digits[i] = c) - 1

\* code point order of the characters the model uses (str comparison)
CharCode(c) ==
    CASE c = " " -> 32
      [] c = "(" -> 40
      [] c = ")" -> 41
      [] c = "+" -> 43
      [] c = "," -> 44
      [] c = "-" -> 45
      [] c = "." -> 46
      [] IsDigit(c) -> 48 + DigitVal(c)
      [] c = "T" -> 84
      [] OTHER -> 96 + (CHOOSE i \in 1..26 :
                 <<"a", "b", "c", "d", "e", "f", "g", "h", "i", "j", "k", "l",
                   "m", "n", "o", "p", "q", "r", "s", "t", "u", "v", "w", "x",
                   "y", "z">>[i] = c)

\* s < t for two str values
RECURSIVE StrLess(_, _)
StrLess(s, t) ==
    IF t = << >> THEN FALSE
    ELSE IF s = << >> THEN TRUE
    ELSE IF s[1] # t[1] THEN CharCode(s[1]) < CharCode(t[1])
    ELSE StrLess(Tail(s), Tail(t))

StartsWith(s, p) == Len(s) >= Len(p) /\ SubSeq(s, 1, Len(p)) = p

\* s[a:] of Python, a >= 0
From(s, a) == SubSeq(s, a + 1, Len(s))

\* s.split(sep) for a non-empty separator
RECURSIVE Split(_, _)
Split(s, sep) ==
    IF \E i \in 1..Len(s) : StartsWith(From(s, i - 1), sep)
    THEN LET i == CHOOSE j \in 1..Len(s) :
                    /\ StartsWith(From(s, j - 1), sep)
                    /\ \A k \in 1..(j - 1) : ~StartsWith(From(s, k - 1), sep)
         IN <<SubSeq(s, 1, i - 1)>> \o Split(From(s, i - 1 + Len(sep)), sep)
    ELSE <<s>>

\* s.strip()
RECURSIVE Strip(_)
Strip(s) ==
    IF s = << >> THEN s
    ELSE IF s[1] = " " THEN Strip(Tail(s))
    ELSE IF s[Len(s)] = " " THEN Strip(SubSeq(s, 1, Len(s) - 1))
    ELSE s

\* sep.join(parts)
RECURSIVE Join(_, _)
Join(parts, sep) ==
    IF parts = << >> THEN << >>
    ELSE IF Len(parts) = 1 THEN parts[1]
    ELSE parts[1] \o sep \o Join(Tail(parts), sep)

AllDigits(s) == \A i \in 1..Len(s) : IsDigit(s[i])

\* value of a digit string
RECURSIVE DigitsVal(_)
DigitsVal(s) ==
    IF s = << >> THEN 0
    ELSE 10 * DigitsVal(SubSeq(s, 1, Len(s) - 1)) + DigitVal(s[Len(s)])

\* decimal digits of a natural number
RECURSIVE NatStr(_)
NatStr(n) ==
    IF n < 10 THEN <<Digits[n + 1]>>
    ELSE NatStr(n \div 10) \o <<Digits[(n % 10) + 1]>>

RECURSIVE Pow10(_)
Pow10(k) == IF k = 0 THEN 1 ELSE 10 * Pow10(k - 1)

RECURSIVE ZeroPad(_, _)
ZeroPad(s, k) == IF Len(s) >= k THEN s ELSE ZeroPad(<<"0">> \o s, k)

----------------------------------------------------------------------------
(* Numbers.  A JSON number is [m, k, int]: the decimal m / 10^k, k = 0 or  *)
(* m not a multiple of 10, int = TRUE when json.load made it a Python int. *)
(* A Python float is [m, k].                                               *)

Abs(n) == IF n < 0 THEN -n ELSE n

NumVal(x) == [m |-> x.m, k |-> x.k]

\* str(x) as the f-string of points_to_linestring formats it
PyStr(x) ==
    LET a == Abs(x.m)
        ip == NatStr(a \div Pow10(x.k))
        fp == IF x.k = 0 THEN <<"0">> ELSE ZeroPad(NatStr(a % Pow10(x.k)), x.k)
    IN (IF x.m < 0 THEN <<"-">> ELSE << >>)
       \o ip
       \o (IF x.int THEN << >> ELSE <<".">> \o fp)

\* the decimal m / 10^k without trailing zeros
RECURSIVE Normal(_, _)
Normal(m, k) ==
    IF k > 0 /\ m % 10 = 0 THEN Normal(m \div 10, k - 1) ELSE [m |-> m, k |-> k]

\* float(tok) for a token without blanks: [sign] digits [. digits], or FloatError
PyFloat(tok) ==
    LET signed == tok # << >> /\ tok[1] \in {"-", "+"}
        body == IF signed THEN Tail(tok) ELSE tok
        parts == Split(body, <<".">>)
        ip == parts[1]
        fp == IF Len(parts) = 2 THEN parts[2] ELSE << >>
        ok == /\ Len(parts) <= 2
              /\ AllDigits(ip) /\ AllDigits(fp)
              /\ Len(ip) + Len(fp) > 0
        mag == DigitsVal(ip) * Pow10(Len(fp)) + DigitsVal(fp)
    IN IF ~ok THEN FloatError
       ELSE Normal(IF signed /\ tok[1] = "-" THEN -mag ELSE mag, Len(fp))

----------------------------------------------------------------------------
(* Geometry codec *)

LINESTRING == <<"L", "I", "N", "E", "S", "T", "R", "I", "N", "G", "(">>

CoordText(p) == PyStr(p.lon) \o <<" ">> \o PyStr(p.lat)

\* as points_to_linestring, with a single point encoded as a line
PointsToLinestringFromOne(points) ==
    IF Len(points) < 1 THEN None
    ELSE LINESTRING
         \o Join([i \in 1..Len(points) |-> CoordText(points[i])], <<",", " ">>)
         \o <<")">>

\* points_to_linestring: WKT text of the points, None below two points
points_to_linestring(points) ==
    IF Len(points) < 2 THEN None
    ELSE LINESTRING
         \o Join([i \in 1..Len(points) |-> CoordText(points[i])], <<",", " ">>)
         \o <<")">>

\* the loop of parse_linestring over the ', '-separated pairs
RECURSIVE DecodePairs(_)
DecodePairs(pairs) ==
    IF pairs = << >> THEN << >>
    ELSE LET parts == Split(Strip(pairs[1]), <<" ">>)
             rest == DecodePairs(Tail(pairs))
         IN IF Len(parts) >= 2
            THEN LET lon == PyFloat(parts[1])
                     lat == PyFloat(parts[2])
                 IN IF lon = FloatError \/ lat = FloatError \/ rest = ValueError
                    THEN ValueError
                    ELSE <<(<<lat, lon>>)>> \o rest
            ELSE rest

\* as parse_linestring, without the swap to [lat, lon]
ParseLinestringLonFirst(wkt) ==
    IF wkt = None \/ wkt = << >> \/ ~StartsWith(wkt, LINESTRING) THEN << >>
    ELSE LET r == DecodePairs(Split(SubSeq(wkt, 12, Len(wkt) - 1), <<",", " ">>))
         IN IF r = ValueError THEN r
            ELSE [i \in 1..Len(r) |-> <<r[i][2], r[i][1]>>]

\* parse_linestring: list of [lat, lon], or the ValueError float() raises
parse_linestring(wkt) ==
    IF wkt = None \/ wkt = << >> \/ ~StartsWith(wkt, LINESTRING) THEN << >>
    ELSE DecodePairs(Split(SubSeq(wkt, 12, Len(wkt) - 1), <<",", " ">>))

----------------------------------------------------------------------------
(* Input files *)

\* a stem that ends in -YYYYMMDDTHHMM
StemA == <<"a", "-", "2", "0", "2", "5", "0", "6", "0", "1", "T", "0", "0", "0", "0">>
StemB == <<"b", "-", "2", "0", "2", "4", "0", "1", "0", "2", "T", "0", "3", "0", "0">>
\* stems that do not: no suffix, and a suffix one digit short
StemN == <<"n", "o", "t", "e", "s">>
StemS == <<"a", "-", "2", "0", "2", "5", "0", "6", "0", "1", "T", "0", "0", "0">>

Dir2025 == <<"2", "0", "2", "5">>
DirGulf == <<"g", "u", "l", "f">>
DirEast == <<"e", "a", "s", "t">>

\* a path .../dir2/dir1/stem.json
Path(d2, d1, st) == [dir2 |-> d2, dir1 |-> d1, stem |-> st]

Paths ==
    { Path(DirGulf, Dir2025, StemA),
      Path(DirEast, Dir2025, StemA),
      Path(Dir2025, DirGulf, StemB),
      Path(DirGulf, Dir2025, StemN),
      Path(DirEast, DirGulf, StemS) }

\* the parts of two paths in the order sorted() compares them
RECURSIVE PartsLess(_, _)
PartsLess(a, b) ==
    IF a = << >> \/ b = << >> THEN a = << >> /\ b # << >>
    ELSE IF a[1] # b[1] THEN StrLess(a[1], b[1])
    ELSE PartsLess(Tail(a), Tail(b))

PathLess(p, q) ==
    PartsLess(<<p.dir2, p.dir1, p.stem>>, <<q.dir2, q.dir1, q.stem>>)

Num(m, k, int) == [m |-> m, k |-> k, int |-> int]

Feature(type, coords, time) == [type |-> type, coords |-> coords, time |-> time]

\* time texts: "1" < "10" < "2" as str
Time1 == <<"1">>
Time10 == <<"1", "0">>
Time2 == <<"2">>

FeatureA == Feature("Point", <<Num(-805, 1, FALSE), Num(25, 0, FALSE)>>, Time2)
FeatureB ==
    Feature("Point", <<Num(-81, 0, TRUE), Num(2625, 2, FALSE), Num(3, 0, TRUE)>>, Time10)
\* features parse_geojson drops: one coordinate, no time, empty time, not a Point
FeatureShort == Feature("Point", <<Num(7, 0, TRUE)>>, Time1)
FeatureNoTime == Feature("Point", <<Num(7, 0, TRUE), Num(8, 0, TRUE)>>, None)
FeatureEmptyTime == Feature("Point", <<Num(7, 0, TRUE), Num(8, 0, TRUE)>>, << >>)
FeatureLine == Feature("LineString", <<Num(7, 0, TRUE), Num(8, 0, TRUE)>>, Time1)

RECURSIVE SeqsUpTo(_, _)
SeqsUpTo(S, n) ==
    IF n = 0 THEN {<< >>}
    ELSE LET shorter == SeqsUpTo(S, n - 1)
         IN shorter \cup {Append(s, x) : s \in {t \in shorter : Len(t) = n - 1}, x \in S}

Range(sq) == {sq[i] : i \in 1..Len(sq)}

\* the sequences that list each element of a set once
RECURSIVE Perms(_)
Perms(S) ==
    IF S = {} THEN {<< >>}
    ELSE UNION {{<<x>> \o p : p \in Perms(S \ {x})} : x \in S}

\* what a file holds: a feature collection, or text json.load rejects
Malformed == [malformed |-> TRUE]
Collection(fs) == [malformed |-> FALSE, features |-> fs]

\* the files the ingests are run on: unreadable, no feature, no sample kept,
\* one sample, two out of order, the same sample twice
IngestContents ==
    { Malformed,
      Collection(<< >>),
      Collection(<<FeatureLine, FeatureNoTime, FeatureEmptyTime, FeatureShort>>),
      Collection(<<FeatureA>>),
      Collection(<<FeatureA, FeatureB>>),
      Collection(<<FeatureA, FeatureA>>) }

----------------------------------------------------------------------------
(* gdamm_gdac.py and json2duckdb.py: reading a file *)

\* the loop of parse_geojson: the features kept, as points
RECURSIVE KeepPoints(_)
KeepPoints(fs) ==
    IF fs = << >> THEN << >>
    ELSE LET f == fs[1]
             keep == /\ f.type = "Point"
                     /\ Len(f.coords) >= 2
                     /\ f.time # None /\ f.time # << >>
         IN (IF keep
             THEN <<[lon |-> f.coords[1], lat |-> f.coords[2], time |-> f.time]>>
             ELSE << >>)
            \o KeepPoints(Tail(fs))

\* list.sort(key = time): stable, ascending in str order
RECURSIVE InsertByTime(_, _)
InsertByTime(sorted, p) ==
    IF sorted = << >> THEN <<p>>
    ELSE IF StrLess(p.time, sorted[1].time) THEN <<p>> \o sorted
    ELSE <<sorted[1]>> \o InsertByTime(Tail(sorted), p)

RECURSIVE SortByTime(_)
SortByTime(ps) ==
    IF ps = << >> THEN << >>
    ELSE InsertByTime(SortByTime(SubSeq(ps, 1, Len(ps) - 1)), ps[Len(ps)])

\* as parse_geojson, without the sort
ParseGeojsonUnsorted(content) == KeepPoints(content.features)

\* parse_geojson on a well-formed collection
parse_geojson(content) == SortByTime(KeepPoints(content.features))

\* extract_metadata of gdamm_gdac.py: None unless the stem ends in -ddddddddTdddd
extract_metadata(path) ==
    LET st == path.stem
        n == Len(st)
        tail == SubSeq(st, n - 13, n)
        match == /\ n >= 14
                 /\ tail[1] = "-"
                 /\ AllDigits(SubSeq(tail, 2, 9))
                 /\ tail[10] = "T"
                 /\ AllDigits(SubSeq(tail, 11, 14))
    IN IF ~match THEN [none |-> TRUE]
       ELSE [none |-> FALSE,
             name |-> st, region |-> path.dir1,
             year |-> DigitsVal(SubSeq(tail, 2, 5))]

\* extract_metadata of json2duckdb.py: int() of the parent directory may raise
extract_metadata_j2d(path) ==
    LET d == path.dir1
        signed == d # << >> /\ d[1] \in {"-", "+"}
        body == IF signed THEN Tail(d) ELSE d
    IN IF body = << >> \/ ~AllDigits(body) THEN [raised |-> TRUE]
       ELSE [raised |-> FALSE,
             name |-> path.stem, region |-> path.dir2,
             year |-> IF signed /\ d[1] = "-" THEN -DigitsVal(body) ELSE DigitsVal(body)]

----------------------------------------------------------------------------
(* The deployments table and its id sequence: d = [rows, seq]              *)

\* as SameIdentity, with a year that never equals the stored one
SameIdentityYearLost(r, name, region, year) ==
    r.name = name /\ r.region = region /\ r.year = -year

\* the columns of UNIQUE(name, region, year), compared with a key
SameIdentity(r, name, region, year) ==
    r.name = name /\ r.region = region /\ r.year = year

\* check_existing: SELECT id ... WHERE name = ? AND region = ? AND year = ?
check_existing(d, name, region, year) ==
    \E r \in d.rows : SameIdentity(r, name, region, year)

\* as DeleteDeployment, with a WHERE clause of the name alone
DeleteDeploymentByName(d, name, region, year) ==
    [d EXCEPT !.rows = {r \in d.rows : r.name # name}]

\* DELETE FROM deployments WHERE name = ? AND region = ? AND year = ?
DeleteDeployment(d, name, region, year) ==
    [d EXCEPT !.rows = {r \in d.rows : ~SameIdentity(r, name, region, year)}]

MaxOf(S) == CHOOSE x \in S : \A y \in S : y <= x

\* an id taken from the rows left in the table instead of the sequence
NextvalFromRows(d) ==
    IF d.rows = {} THEN 1 ELSE MaxOf({r.id : r \in d.rows}) + 1

\* nextval('deployments_id_seq'), the sequence of create_schema (START 1)
nextval(d) == d.seq

\* as InsertRow, on a table without UNIQUE(name, region, year)
InsertRowNoUnique(d, name, region, year, start_time, end_time, geometry) ==
    LET id == nextval(d)
        row == [id |-> id, name |-> name, region |-> region, year |-> year,
                start_time |-> start_time, end_time |-> end_time,
                geometry |-> geometry]
        rejected == \E r \in d.rows : r.id = id
    IN [raised |-> rejected,
        db |-> [rows |-> IF rejected THEN d.rows ELSE d.rows \cup {row},
                seq |-> d.seq + 1]]

\* INSERT INTO deployments: PRIMARY KEY and UNIQUE reject the row, else it is added
InsertRow(d, name, region, year, start_time, end_time, geometry) ==
    LET id == nextval(d)
        row == [id |-> id, name |-> name, region |-> region, year |-> year,
                start_time |-> start_time, end_time |-> end_time,
                geometry |-> geometry]
        rejected == \E r \in d.rows :
                        r.id = id \/ SameIdentity(r, name, region, year)
    IN [raised |-> rejected,
        db |-> [rows |-> IF rejected THEN d.rows ELSE d.rows \cup {row},
                seq |-> d.seq + 1]]

\* as handle_existing, with the DELETE issued before the force test
HandleExistingDeleteFirst(d, name, region, year, force) ==
    IF ~check_existing(d, name, region, year)
    THEN [db |-> d, proceed |-> "True"]
    ELSE IF ~force
    THEN [db |-> DeleteDeployment(d, name, region, year), proceed |-> "None"]
    ELSE [db |-> DeleteDeployment(d, name, region, year), proceed |-> "True"]

\* as handle_existing, without the DELETE
HandleExistingKeep(d, name, region, year, force) ==
    IF ~check_existing(d, name, region, year)
    THEN [db |-> d, proceed |-> "True"]
    ELSE IF ~force
    THEN [db |-> d, proceed |-> "None"]
    ELSE [db |-> d, proceed |-> "True"]

\* handle_existing: "True" to insert, "None" to skip
handle_existing(d, name, region, year, force) ==
    IF ~check_existing(d, name, region, year)
    THEN [db |-> d, proceed |-> "True"]
    ELSE IF ~force
    THEN [db |-> d, proceed |-> "None"]
    ELSE [db |-> DeleteDeployment(d, name, region, year), proceed |-> "True"]

\* as ReadAndInsert, with start_time and end_time taken from the wrong ends
ReadAndInsertEndsSwapped(d, name, region, year, content) ==
    IF content.malformed THEN [db |-> d, result |-> "raise"]
    ELSE LET points == parse_geojson(content)
         IN IF points = << >> THEN [db |-> d, result |-> "False"]
            ELSE LET ins == InsertRow(d, name, region, year,
                                      points[Len(points)].time, points[1].time,
                                      points_to_linestring(points))
                 IN [db |-> ins.db,
                     result |-> IF ins.raised THEN "raise" ELSE "True"]

\* import_deployment from parse_geojson on: read, derive, insert.
\* result: "True", "False", or "raise" when an exception leaves the function
ReadAndInsert(d, name, region, year, content) ==
    IF content.malformed THEN [db |-> d, result |-> "raise"]
    ELSE LET points == parse_geojson(content)
         IN IF points = << >> THEN [db |-> d, result |-> "False"]
            ELSE LET ins == InsertRow(d, name, region, year,
                                      points[1].time, points[Len(points)].time,
                                      points_to_linestring(points))
                 IN [db |-> ins.db,
                     result |-> IF ins.raised THEN "raise" ELSE "True"]

\* as import_deployment, with the file read before the existence check
ImportDeploymentReadFirst(d, path, content, force) ==
    LET metadata == extract_metadata(path)
    IN IF metadata.none THEN [db |-> d, result |-> "invalid"]
       ELSE IF content.malformed THEN [db |-> d, result |-> "raise"]
       ELSE IF parse_geojson(content) = << >> THEN [db |-> d, result |-> "False"]
       ELSE LET h == handle_existing(d, metadata.name, metadata.region,
                                     metadata.year, force)
            IN IF h.proceed # "True" THEN [db |-> h.db, result |-> h.proceed]
               ELSE ReadAndInsert(h.db, metadata.name, metadata.region,
                                  metadata.year, content)

\* import_deployment of gdamm_gdac.py
import_deployment(d, path, content, force) ==
    LET metadata == extract_metadata(path)
    IN IF metadata.none THEN [db |-> d, result |-> "invalid"]
       ELSE LET h == handle_existing(d, metadata.name, metadata.region,
                                     metadata.year, force)
            IN IF h.proceed # "True" THEN [db |-> h.db, result |-> h.proceed]
               ELSE ReadAndInsert(h.db, metadata.name, metadata.region,
                                  metadata.year, content)

\* import_deployment of json2duckdb.py
import_deployment_j2d(d, path, content, force) ==
    LET metadata == extract_metadata_j2d(path)
    IN IF metadata.raised THEN [db |-> d, result |-> "raise"]
       ELSE LET exists == check_existing(d, metadata.name, metadata.region,
                                         metadata.year)
            IN IF exists /\ ~force THEN [db |-> d, result |-> "None"]
               ELSE ReadAndInsert(
                        IF exists
                        THEN DeleteDeployment(d, metadata.name, metadata.region,
                                              metadata.year)
                        ELSE d,
                        metadata.name, metadata.region, metadata.year, content)

\* import_single_file, the same in both scripts but for the import it calls
import_single_file(d, tl, path, content, exists, force) ==
    IF ~exists THEN [db |-> d, result |-> "False"]
    ELSE IF tl = "gdac" THEN import_deployment(d, path, content, force)
    ELSE import_deployment_j2d(d, path, content, force)

----------------------------------------------------------------------------
(* State *)

VARIABLES
    store,      \* rows of the deployments table
    seq,        \* next value of deployments_id_seq
    issued,     \* history: every id a row was ever inserted with
    tool,       \* the script run on this database: "gdac" or "j2d"
    pc,         \* "idle", "loop" (inside import_directory), "done"
    call,       \* the file and flags of the last import (for a scan, exists
                \* tells whether the directory is one)
    result,     \* what the last import returned
    exit,       \* exit status of the last finished invocation
    files,      \* json_files of the running import_directory
    idx,        \* position of its loop in json_files
    stats,      \* its counters
    log,        \* history: the result of each file of the running batch
    samples,    \* codec: the points given to points_to_linestring
    wkt,        \* codec: the text it returned
    decoded,    \* codec: parse_linestring of that text
    years,      \* colors: the years, in the order the set enumerates them
    deployments, \* render: the rows get_deployments fetched
    year_colors, \* render: year -> color
    year_counts, \* render: year -> count shown in the legend
    bounds,     \* render: what calculate_bounds returned
    tracks,     \* render: the polylines added to the map
    saved,      \* render: the map was written to the output path
    procs       \* race: the invocations running at once, each with its
                \* position, its arguments and its result

vars == <<store, seq, issued, tool, pc, call, result, exit, files, idx, stats,
          log, samples, wkt, decoded, years, deployments, year_colors,
          year_counts, bounds, tracks, saved, procs>>

dbVars == <<store, seq, issued>>
batchVars == <<files, idx, stats, log>>
codecVars == <<samples, wkt, decoded>>
renderVars == <<years, deployments, year_colors, year_counts, bounds, tracks, saved>>

NoCall == [op |-> "none", path |-> Path(<< >>, << >>, << >>),
           content |-> Malformed, exists |-> FALSE, force |-> FALSE]

NoStats == [inserted |-> 0, skipped |-> 0, invalid |-> 0, errors |-> 0]

\* no invocation runs beside the one of pc
NoProcs == << >>

\* no render has run
NoRender ==
    /\ years = << >>
    /\ deployments = << >>
    /\ year_colors = << >>
    /\ year_counts = << >>
    /\ bounds = None
    /\ tracks = << >>
    /\ saved = FALSE

Init ==
    /\ store = {}
    /\ seq = 1
    /\ issued = {}
    /\ tool \in {"gdac", "j2d"}
    /\ pc = "idle"
    /\ call = NoCall
    /\ result = "None"
    /\ exit = 0
    /\ files = << >>
    /\ idx = 1
    /\ stats = NoStats
    /\ log = << >>
    /\ procs = NoProcs
    /\ samples = << >>
    /\ wkt = None
    /\ decoded = << >>
    /\ NoRender

DB == [rows |-> store, seq |-> seq]

\* the database after an import, with the ids it handed out recorded
SetDB(d) ==
    /\ store' = d.rows
    /\ seq' = d.seq
    /\ issued' = issued \cup {r.id : r \in d.rows}

----------------------------------------------------------------------------
(* main with --data-file *)

ExitOfFile(res) == IF res \in {"True", "None"} THEN 0 ELSE 1

MainDataFile(tl, path, content, exists, force) ==
    /\ tool = tl
    /\ pc \in {"idle", "done"}
    /\ LET r == import_single_file(DB, tl, path, content, exists, force)
       IN /\ r.db.seq <= MaxId + 1
          /\ SetDB(r.db)
          /\ result' = r.result
          /\ exit' = ExitOfFile(r.result)
    /\ call' = [op |-> "file", path |-> path, content |-> content,
                exists |-> exists, force |-> force]
    /\ pc' = "done"
    /\ UNCHANGED <<procs, tool, batchVars, codecVars, renderVars>>

\* a file given on the command line: one that exists with some content, or none
GivenFiles == {<<c, TRUE>> : c \in IngestContents} \cup {<<Malformed, FALSE>>}

MainDataFileGdac ==
    \E path \in Paths, f \in GivenFiles, force \in BOOLEAN :
        MainDataFile("gdac", path, f[1], f[2], force)

MainDataFileJ2D ==
    \E path \in Paths, f \in GivenFiles, force \in BOOLEAN :
        MainDataFile("j2d", path, f[1], f[2], force)

Next == MainDataFileGdac \/ MainDataFileJ2D

Spec == Init /\ [][Next]_vars

----------------------------------------------------------------------------
(* main with --data-file, on one file whose features come in every order *)

\* a sample stamped "1", before FeatureB ("10") and FeatureA ("2") as str
FeatureC == Feature("Point", <<Num(3, 0, TRUE), Num(4, 0, TRUE)>>, Time1)

OrderedFeatures == {FeatureA, FeatureB, FeatureC, FeatureNoTime, FeatureLine}

\* a path both scripts take an identity from
OrderedPath == Path(DirGulf, Dir2025, StemA)

OrderedInit ==
    /\ store = {}
    /\ seq = 1
    /\ issued = {}
    /\ tool \in {"gdac", "j2d"}
    /\ pc = "idle"
    /\ \E fs \in SeqsUpTo(OrderedFeatures, MaxFeatures) :
          call = [NoCall EXCEPT !.content = Collection(fs)]
    /\ result = "None"
    /\ exit = 0
    /\ files = << >>
    /\ idx = 1
    /\ stats = NoStats
    /\ log = << >>
    /\ procs = NoProcs
    /\ samples = << >>
    /\ wkt = None
    /\ decoded = << >>
    /\ NoRender

OrderedFileGdac ==
    \E force \in BOOLEAN :
        MainDataFile("gdac", OrderedPath, call.content, TRUE, force)

OrderedFileJ2D ==
    \E force \in BOOLEAN :
        MainDataFile("j2d", OrderedPath, call.content, TRUE, force)

OrderedNext == OrderedFileGdac \/ OrderedFileJ2D

OrderedSpec == OrderedInit /\ [][OrderedNext]_vars

----------------------------------------------------------------------------
(* main with --data-dir *)

\* sorted(): the paths of a set in ascending order
RECURSIVE SortedPaths(_)
SortedPaths(S) ==
    IF S = {} THEN << >>
    ELSE LET least == CHOOSE p \in S : \A q \in S \ {p} : PathLess(p, q)
         IN <<least>> \o SortedPaths(S \ {least})

\* find_json_files: what rglob may find, sorted
FoundFiles == {SortedPaths(S) : S \in {T \in SUBSET Paths : Cardinality(T) <= MaxFiles}}

\* main up to the loop of import_directory: the directory test, the scan, the
\* early return for no file
ScanDirectory ==
    /\ pc \in {"idle", "done"}
    /\ \E isdir \in BOOLEAN, force \in BOOLEAN, found \in FoundFiles :
        /\ ~isdir => found = << >>
        /\ files' = found
        /\ call' = [NoCall EXCEPT !.op = "scan", !.exists = isdir, !.force = force]
        /\ IF isdir /\ found # << >>
           THEN pc' = "loop" /\ exit' = 0
           ELSE pc' = "done" /\ exit' = 1
    /\ idx' = 1
    /\ stats' = NoStats
    /\ log' = << >>
    /\ result' = "None"
    /\ UNCHANGED <<procs, dbVars, tool, codecVars, renderVars>>

\* the counters after a result, gdamm_gdac.py
CountGdac(st, res) ==
    IF res = "True" THEN [st EXCEPT !.inserted = @ + 1]
    ELSE IF res = "None" THEN [st EXCEPT !.skipped = @ + 1]
    ELSE IF res = "invalid" THEN [st EXCEPT !.invalid = @ + 1]
    ELSE [st EXCEPT !.errors = @ + 1]

\* the counters after a result, json2duckdb.py
CountJ2D(st, res) ==
    IF res = "True" THEN [st EXCEPT !.inserted = @ + 1]
    ELSE IF res = "None" THEN [st EXCEPT !.skipped = @ + 1]
    ELSE [st EXCEPT !.errors = @ + 1]

\* one turn of the loop of import_directory; an exception ends the process
ImportNext(tl, content) ==
    /\ tool = tl
    /\ pc = "loop"
    /\ idx <= Len(files)
    /\ LET r == IF tl = "gdac"
                THEN import_deployment(DB, files[idx], content, call.force)
                ELSE import_deployment_j2d(DB, files[idx], content, call.force)
       IN /\ r.db.seq <= MaxId + 1
          /\ SetDB(r.db)
          /\ result' = r.result
          /\ log' = Append(log, r.result)
          /\ IF r.result = "raise"
             THEN /\ pc' = "done"
                  /\ exit' = 1
                  /\ UNCHANGED <<idx, stats>>
             ELSE /\ stats' = IF tl = "gdac" THEN CountGdac(stats, r.result)
                                             ELSE CountJ2D(stats, r.result)
                  /\ idx' = idx + 1
                  /\ UNCHANGED <<pc, exit>>
    /\ call' = [op |-> "dir", path |-> files[idx], content |-> content,
                exists |-> TRUE, force |-> call.force]
    /\ UNCHANGED <<procs, tool, files, codecVars, renderVars>>

ImportNextGdac == \E content \in IngestContents : ImportNext("gdac", content)

ImportNextJ2D == \E content \in IngestContents : ImportNext("j2d", content)

\* the end of import_directory and of main: success is no error counted
Summary ==
    /\ pc = "loop"
    /\ idx > Len(files)
    /\ pc' = "done"
    /\ exit' = IF stats.errors = 0 THEN 0 ELSE 1
    /\ call' = [call EXCEPT !.op = "summary"]
    /\ UNCHANGED <<procs, dbVars, tool, result, batchVars, codecVars, renderVars>>

BatchNext == ScanDirectory \/ ImportNextGdac \/ ImportNextJ2D \/ Summary

BatchSpec == Init /\ [][BatchNext]_vars

----------------------------------------------------------------------------
(* The codec on its own: encode a sample sequence, decode the text *)

CodecNums ==
    { Num(-805, 1, FALSE), Num(25, 0, FALSE), Num(-81, 0, TRUE),
      Num(2625, 2, FALSE), Num(5, 2, FALSE) }

CodecPoints == {[lon |-> x, lat |-> y, time |-> Time1] : x, y \in CodecNums}

CodecInit ==
    /\ store = {}
    /\ seq = 1
    /\ issued = {}
    /\ tool = "gdac"
    /\ pc = "idle"
    /\ call = NoCall
    /\ result = "None"
    /\ exit = 0
    /\ files = << >>
    /\ idx = 1
    /\ stats = NoStats
    /\ log = << >>
    /\ procs = NoProcs
    /\ samples \in SeqsUpTo(CodecPoints, MaxSamples)
    /\ wkt = None
    /\ decoded = << >>
    /\ NoRender

Encode ==
    /\ pc = "idle"
    /\ wkt' = points_to_linestring(samples)
    /\ pc' = "encoded"
    /\ UNCHANGED <<procs, dbVars, tool, call, result, exit, batchVars, samples, decoded,
                   renderVars>>

Decode ==
    /\ pc = "encoded"
    /\ decoded' = parse_linestring(wkt)
    /\ pc' = "decoded"
    /\ UNCHANGED <<procs, dbVars, tool, call, result, exit, batchVars, samples, wkt,
                   renderVars>>

CodecNext == Encode \/ Decode

CodecSpec == CodecInit /\ [][CodecNext]_vars

----------------------------------------------------------------------------
(* The codec on the geometry text of a row, whoever wrote it *)

POINT == <<"P", "O", "I", "N", "T", "(">>

\* what stands between the envelope: two pairs, a pair of one token, a token
\* that is no number, nothing, decimals and signs, one pair
BodyTwo == <<"1", " ", "2", ",", " ", "3", " ", "4">>
BodyShortPair == <<"1", " ", "2", ",", " ", "3">>
BodyNotNumber == <<"1", " ", "x", ",", " ", "3", " ", "4">>
BodyDecimal ==
    <<"-", "8", "0", ".", "5", " ", "2", "5", ".", "0", ",", " ",
      "-", "8", "1", " ", "2", "6", ".", "2", "5">>
BodyOne == <<"1", " ", "2">>

Bodies == {BodyTwo, BodyShortPair, BodyNotNumber, << >>, BodyDecimal, BodyOne}

\* the value of the geometry column: NULL, or a text with or without the
\* 'LINESTRING(' in front and the ')' behind
GeometryTexts ==
    {None}
    \cup {pre \o body \o post :
            pre \in {LINESTRING, POINT, << >>},
            body \in Bodies,
            post \in {<<")">>, << >>}}

TextNums == {Num(-805, 1, FALSE), Num(3, 0, TRUE)}

TextPoints == {[lon |-> x, lat |-> y, time |-> Time1] : x, y \in TextNums}

TextInit ==
    /\ store = {}
    /\ seq = 1
    /\ issued = {}
    /\ tool = "gdac"
    /\ pc = "idle"
    /\ call = NoCall
    /\ result = "None"
    /\ exit = 0
    /\ files = << >>
    /\ idx = 1
    /\ stats = NoStats
    /\ log = << >>
    /\ procs = NoProcs
    /\ samples \in SeqsUpTo(TextPoints, MaxSamples)
    /\ wkt = None
    /\ decoded = << >>
    /\ NoRender

\* the geometry of a fetched row is at hand, to be given to parse_linestring
GivenGeometry ==
    /\ pc = "idle"
    /\ wkt' \in GeometryTexts
    /\ call' = [NoCall EXCEPT !.op = "text"]
    /\ pc' = "encoded"
    /\ UNCHANGED <<procs, dbVars, tool, result, exit, batchVars, samples, decoded,
                   renderVars>>

TextNext == Encode \/ Decode \/ GivenGeometry

TextSpec == TextInit /\ [][TextNext]_vars

----------------------------------------------------------------------------
(* gdamm_map.py: the colors of the years *)

\* most years given to generate_year_colors
MaxYears == 8

COLORBLIND_PALETTE ==
    <<"#0072B2", "#D55E00", "#009E73", "#CC79A7", "#F0E442", "#56B4E9", "#E69F00">>

\* sorted() of a list of int
RECURSIVE InsertInt(_, _)
InsertInt(sorted, y) ==
    IF sorted = << >> THEN <<y>>
    ELSE IF y < sorted[1] THEN <<y>> \o sorted
    ELSE <<sorted[1]>> \o InsertInt(Tail(sorted), y)

RECURSIVE SortedInts(_)
SortedInts(ys) ==
    IF ys = << >> THEN << >>
    ELSE InsertInt(SortedInts(SubSeq(ys, 1, Len(ys) - 1)), ys[Len(ys)])

\* the dict the loop over enumerate(order) leaves: the last index of a year wins
ColorsInOrder(order) ==
    [y \in Range(order) |->
        LET i == CHOOSE j \in 1..Len(order) :
                    /\ order[j] = y
                    /\ \A k \in (j + 1)..Len(order) : order[k] # y
        IN COLORBLIND_PALETTE[((i - 1) % Len(COLORBLIND_PALETTE)) + 1]]

\* as generate_year_colors, without sorted()
GenerateYearColorsUnsorted(ys) == ColorsInOrder(ys)

\* generate_year_colors, ys the years as the argument enumerates them
generate_year_colors(ys) == ColorsInOrder(SortedInts(ys))

\* more years than the palette has colors
YearPool == 2018..2025

ColorInit ==
    /\ store = {}
    /\ seq = 1
    /\ issued = {}
    /\ tool = "gdac"
    /\ pc = "idle"
    /\ call = NoCall
    /\ result = "None"
    /\ exit = 0
    /\ files = << >>
    /\ idx = 1
    /\ stats = NoStats
    /\ log = << >>
    /\ procs = NoProcs
    /\ samples = << >>
    /\ wkt = None
    /\ decoded = << >>
    /\ years \in UNION {Perms(T) : T \in {U \in SUBSET YearPool : Cardinality(U) <= MaxYears}}
    /\ deployments = << >>
    /\ year_colors = << >>
    /\ year_counts = << >>
    /\ bounds = None
    /\ tracks = << >>
    /\ saved = FALSE

GenerateYearColors ==
    /\ pc = "idle"
    /\ year_colors' = generate_year_colors(years)
    /\ pc' = "colored"
    /\ UNCHANGED <<procs, dbVars, tool, call, result, exit, batchVars, codecVars, years,
                   deployments, year_counts, bounds, tracks, saved>>

ColorNext == GenerateYearColors

ColorSpec == ColorInit /\ [][ColorNext]_vars

----------------------------------------------------------------------------
(* gdamm_map.py: main, on the database it is given *)

\* most rows of the database a map is made of
MaxRows == 3

\* a < b for two floats
NumLess(a, b) == a.m * Pow10(b.k) < b.m * Pow10(a.k)

\* min() and max() of a non-empty collection of floats
MinNum(S) == CHOOSE x \in S : \A y \in S : ~NumLess(y, x)
MaxNum(S) == CHOOSE x \in S : \A y \in S : ~NumLess(x, y)

\* ORDER BY year, region, name
RowLess(a, b) ==
    \/ a.year < b.year
    \/ a.year = b.year /\ StrLess(a.region, b.region)
    \/ a.year = b.year /\ a.region = b.region /\ StrLess(a.name, b.name)

RECURSIVE SortedRows(_)
SortedRows(S) ==
    IF S = {} THEN << >>
    ELSE LET least == CHOOSE r \in S : \A q \in S \ {r} : RowLess(r, q)
         IN <<least>> \o SortedRows(S \ {least})

\* get_deployments: the rows WHERE geometry IS NOT NULL, in that order
get_deployments(rows) == SortedRows({r \in rows : r.geometry # None})

\* the coordinates calculate_bounds collects, or ValueError from a decode
RECURSIVE AllCoords(_)
AllCoords(deps) ==
    IF deps = << >> THEN << >>
    ELSE LET coords == parse_linestring(deps[1].geometry)
             rest == AllCoords(Tail(deps))
         IN IF coords = ValueError \/ rest = ValueError THEN ValueError
            ELSE coords \o rest

BoxOf(all) ==
    LET lats == {all[i][1] : i \in 1..Len(all)}
        lons == {all[i][2] : i \in 1..Len(all)}
    IN <<(<<MinNum(lats), MinNum(lons)>>), (<<MaxNum(lats), MaxNum(lons)>>)>>

\* as calculate_bounds, with the box of the first track only
CalculateBoundsFirstTrack(deps) ==
    LET all == AllCoords(deps)
    IN IF all = ValueError THEN ValueError
       ELSE IF all = << >> THEN None
       ELSE BoxOf(AllCoords(
                <<(CHOOSE d \in Range(deps) : parse_linestring(d.geometry) # << >>)>>))

\* as calculate_bounds, with a box of its own when there is no coordinate
CalculateBoundsDefaultBox(deps) ==
    LET all == AllCoords(deps)
        zero == [m |-> 0, k |-> 0]
    IN IF all = ValueError THEN ValueError
       ELSE IF all = << >> THEN <<(<<zero, zero>>), (<<zero, zero>>)>>
       ELSE BoxOf(all)

\* calculate_bounds: None, [[min lat, min lon], [max lat, max lon]], or the
\* ValueError of a decode
calculate_bounds(deps) ==
    LET all == AllCoords(deps)
    IN IF all = ValueError THEN ValueError
       ELSE IF all = << >> THEN None
       ELSE BoxOf(all)

\* add_deployment_track and add_track_markers: what one deployment adds
TrackOf(d, colors, show_markers) ==
    LET coords == parse_linestring(d.geometry)
    IN [name |-> d.name, region |-> d.region, year |-> d.year,
        locations |-> coords,
        color |-> IF d.year \in DOMAIN colors THEN colors[d.year] ELSE "#999999",
        markers |-> IF show_markers THEN <<coords[1], coords[Len(coords)]>>
                    ELSE << >>]

\* the loop of create_map: a deployment without coordinates adds nothing
RECURSIVE TracksOf(_, _, _)
TracksOf(deps, colors, show_markers) ==
    IF deps = << >> THEN << >>
    ELSE (IF parse_linestring(deps[1].geometry) = << >> THEN << >>
          ELSE <<TrackOf(deps[1], colors, show_markers)>>)
         \o TracksOf(Tail(deps), colors, show_markers)

\* count_deployments_by_year
count_deployments_by_year(deps) ==
    [y \in {deps[i].year : i \in 1..Len(deps)} |->
        Cardinality({i \in 1..Len(deps) : deps[i].year = y})]

\* the geometry column of the rows a map is made of
RenderGeoms ==
    { None, << >>,
      POINT \o BodyTwo \o <<")">>,
      LINESTRING \o BodyOne,
      LINESTRING \o BodyTwo \o <<")">>,
      LINESTRING \o BodyDecimal \o <<")">>,
      LINESTRING \o BodyShortPair \o <<")">>,
      LINESTRING \o BodyNotNumber \o <<")">> }

\* row i of the table: rows 1 and 3 share a year
RenderRow(i, geometry) ==
    [id |-> i, name |-> <<"d">> \o NatStr(i),
     region |-> IF i % 2 = 1 THEN DirGulf ELSE DirEast,
     year |-> 2024 + (i % 2),
     start_time |-> Time1, end_time |-> Time2, geometry |-> geometry]

RenderTables ==
    {{RenderRow(i, g[i]) : i \in D} :
        D \in SUBSET (1..MaxRows), g \in [1..MaxRows -> RenderGeoms]}

RenderInit ==
    /\ store \in RenderTables
    /\ seq = MaxRows + 1
    /\ issued = {r.id : r \in store}
    /\ tool = "gdac"
    /\ pc = "idle"
    /\ call = NoCall
    /\ result = "None"
    /\ exit = 0
    /\ files = << >>
    /\ idx = 1
    /\ stats = NoStats
    /\ log = << >>
    /\ procs = NoProcs
    /\ samples = << >>
    /\ wkt = None
    /\ decoded = << >>
    /\ NoRender

\* main of gdamm_map.py on an existing database.  result: "True" when the
\* map was saved, "False" when main called sys.exit(1), "raise" when a
\* ValueError left it
RenderMain ==
    /\ pc = "idle"
    /\ \E show_markers \in BOOLEAN :
        LET deps == get_deployments(store)
            active_years == {deps[i].year : i \in 1..Len(deps)}
            box == calculate_bounds(deps)
        IN /\ deployments' = deps
           /\ IF deps = << >>
              THEN /\ result' = "False"
                   /\ UNCHANGED <<years, year_colors, year_counts, bounds, tracks>>
              ELSE /\ years' \in Perms(active_years)
                   /\ year_colors' = generate_year_colors(years')
                   /\ year_counts' = count_deployments_by_year(deps)
                   /\ IF AllCoords(deps) = ValueError
                      THEN result' = "raise" /\ UNCHANGED <<bounds, tracks>>
                      ELSE IF box = None
                      THEN result' = "False" /\ UNCHANGED <<bounds, tracks>>
                      ELSE /\ result' = "True"
                           /\ bounds' = box
                           /\ tracks' = TracksOf(deps, year_colors', show_markers)
           /\ saved' = (result' = "True")
           /\ exit' = IF result' = "True" THEN 0 ELSE 1
    /\ call' = [NoCall EXCEPT !.op = "render"]
    /\ pc' = "done"
    /\ UNCHANGED <<procs, dbVars, tool, batchVars, codecVars>>

RenderNext == RenderMain

RenderSpec == RenderInit /\ [][RenderNext]_vars

----------------------------------------------------------------------------
(* Two invocations of main --data-file on one database at once.  Each SQL  *)
(* statement is a step of its own: the SELECT of the existence check, the  *)
(* DELETE of an override, the INSERT.                                      *)

Procs == {1, 2}

RacePaths ==
    { Path(DirGulf, Dir2025, StemA),
      Path(DirEast, Dir2025, StemA),
      Path(Dir2025, DirGulf, StemB) }

RaceContents == {Collection(<<FeatureA, FeatureB>>), Collection(<< >>)}

IdleProc ==
    [pc |-> "idle", path |-> Path(<< >>, << >>, << >>), content |-> Malformed,
     force |-> FALSE, result |-> "None"]

RaceInit ==
    /\ store = {}
    /\ seq = 1
    /\ issued = {}
    /\ tool \in {"gdac", "j2d"}
    /\ pc = "idle"
    /\ call = NoCall
    /\ result = "None"
    /\ exit = 0
    /\ files = << >>
    /\ idx = 1
    /\ stats = NoStats
    /\ log = << >>
    /\ procs = [p \in Procs |-> IdleProc]
    /\ samples = << >>
    /\ wkt = None
    /\ decoded = << >>
    /\ NoRender

\* extract_metadata of the script in use gave an identity
PathHasIdentity(path) ==
    IF tool = "gdac" THEN ~extract_metadata(path).none
    ELSE ~extract_metadata_j2d(path).raised

\* that identity
PathKey(path) ==
    LET m == IF tool = "gdac" THEN extract_metadata(path)
             ELSE extract_metadata_j2d(path)
    IN <<m.name, m.region, m.year>>

\* import_deployment up to the SELECT of check_existing and the test on it
RaceCheck(p) ==
    /\ procs[p].pc \in {"idle", "done"}
    /\ seq <= MaxId
    /\ \E path \in RacePaths, content \in RaceContents, force \in BOOLEAN :
        LET q == [IdleProc EXCEPT !.path = path, !.content = content,
                                  !.force = force]
        IN procs' = [procs EXCEPT ![p] =
              IF ~PathHasIdentity(path)
              THEN [q EXCEPT !.pc = "done",
                             !.result = IF tool = "gdac" THEN "invalid" ELSE "raise"]
              ELSE LET key == PathKey(path)
                   IN IF ~check_existing(DB, key[1], key[2], key[3])
                      THEN [q EXCEPT !.pc = "insert"]
                      ELSE IF ~force
                      THEN [q EXCEPT !.pc = "done", !.result = "None"]
                      ELSE [q EXCEPT !.pc = "delete"]]
    /\ UNCHANGED <<dbVars, tool, pc, call, result, exit, batchVars, codecVars,
                   renderVars>>

\* the DELETE of an override
RaceDelete(p) ==
    /\ procs[p].pc = "delete"
    /\ LET key == PathKey(procs[p].path)
       IN SetDB(DeleteDeployment(DB, key[1], key[2], key[3]))
    /\ procs' = [procs EXCEPT ![p].pc = "insert"]
    /\ UNCHANGED <<tool, pc, call, result, exit, batchVars, codecVars, renderVars>>

\* parse_geojson and the INSERT
RaceInsert(p) ==
    /\ procs[p].pc = "insert"
    /\ LET key == PathKey(procs[p].path)
           r == ReadAndInsert(DB, key[1], key[2], key[3], procs[p].content)
       IN /\ SetDB(r.db)
          /\ procs' = [procs EXCEPT ![p].pc = "done", ![p].result = r.result]
    /\ UNCHANGED <<tool, pc, call, result, exit, batchVars, codecVars, renderVars>>

RaceNext ==
    \/ \E p \in Procs : RaceCheck(p)
    \/ \E p \in Procs : RaceDelete(p)
    \/ \E p \in Procs : RaceInsert(p)

RaceSpec == RaceInit /\ [][RaceNext]_vars

----------------------------------------------------------------------------
(* What the claims speak of *)

IsImport(c) == c.op \in {"file", "dir"} /\ c.exists

\* the import's file path gives an identity, under the script in use
HasIdentity(c) ==
    IF tool = "gdac" THEN ~extract_metadata(c.path).none
    ELSE ~extract_metadata_j2d(c.path).raised

KeyOf(c) ==
    LET m == IF tool = "gdac" THEN extract_metadata(c.path)
             ELSE extract_metadata_j2d(c.path)
    IN <<m.name, m.region, m.year>>

RowKey(r) == <<r.name, r.region, r.year>>

RowsOf(rows, key) == {r \in rows : RowKey(r) = key}

Readable(c) == ~c.content.malformed

\* the samples the import's input yields
ValidSamples(c) == parse_geojson(c.content)

----------------------------------------------------------------------------
(* Claims *)

\* C1: an import whose input yields no valid sample leaves the store exactly
\* as it was, whatever the override setting, and does not report an insert:
\* it returns the failed outcome (or, without override, the skip of C3).
C1_NoValidPointsStoreUnchanged ==
    [][(/\ IsImport(call') /\ HasIdentity(call')
        /\ Readable(call') /\ ValidSamples(call') = << >>)
       => (store' = store /\ result' \in {"False", "None"})]_vars

\* C2: the store never holds two records with the same (name, region, year).
C2_IdentityUnique ==
    \A r1, r2 \in store : RowKey(r1) = RowKey(r2) => r1 = r2

\* two identities stored, and the last import was refused as a duplicate
C2_Witness ==
    /\ Cardinality(store) = 2
    /\ IsImport(call) /\ result = "None"

\* C3: an import without override of an identity already stored reports the
\* skipped outcome and leaves the record of that identity as it was.
C3_SkipLeavesRecord ==
    [][(/\ IsImport(call') /\ HasIdentity(call') /\ ~call'.force
        /\ RowsOf(store, KeyOf(call')) # {})
       => (/\ result' = "None"
           /\ RowsOf(store', KeyOf(call')) = RowsOf(store, KeyOf(call')))]_vars

\* a skipped import, its record still stored
C3_Witness ==
    /\ IsImport(call) /\ HasIdentity(call) /\ ~call.force
    /\ result = "None"
    /\ RowsOf(store, KeyOf(call)) # {}

\* the record an import computes from its input alone
SecondInputOnly(r, c) ==
    LET points == ValidSamples(c)
    IN /\ Readable(c) /\ points # << >>
       /\ r.geometry = points_to_linestring(points)
       /\ r.start_time = points[1].time
       /\ r.end_time = points[Len(points)].time

TwoImportsSameIdentity ==
    /\ IsImport(call) /\ HasIdentity(call)
    /\ IsImport(call') /\ HasIdentity(call')
    /\ KeyOf(call') = KeyOf(call)
    /\ call'.force

C5_AllNullOrNone ==
    \A r \in store :
        /\ (r.geometry = None) = (r.start_time = None)
        /\ (r.geometry = None) = (r.end_time = None)

\* C6: a newly inserted record gets an id greater than every id assigned
\* before, also after an override import deleted a record.
C6_IdsNeverReused ==
    [][\A r \in store' \ store : \A i \in issued : r.id > i]_vars

\* an override import deleted the first row; the new row did not take its id
C6_Witness ==
    /\ issued = {1, 2}
    /\ \A r \in store : r.id = 2
    /\ store # {}

Count(lg, res) == Cardinality({i \in 1..Len(lg) : lg[i] = res})

\* the invocation scanned a directory and found files
BatchEnded == pc = "done" /\ call.op \in {"dir", "summary"}

\* C7: when a batch ends, every file found was processed once and the four
\* counters count the files by outcome, so their sum is the number of files.
C7_BatchCountsAllFiles ==
    BatchEnded =>
        /\ Len(log) = Len(files)
        /\ stats.inserted = Count(log, "True")
        /\ stats.skipped = Count(log, "None")
        /\ stats.invalid = Count(log, "invalid")
        /\ stats.errors = Len(files) - Count(log, "True") - Count(log, "None")
                          - Count(log, "invalid")
        /\ stats.inserted + stats.skipped + stats.invalid + stats.errors = Len(files)

\* C8: in a batch of either script, a file whose path gives no identity yields
\* the invalid outcome, the store is unchanged and the loop goes on.
C8_InvalidIdentitySkipped ==
    [][(call'.op = "dir" /\ ~HasIdentity(call'))
       => (/\ result' = "invalid"
           /\ store' = store
           /\ pc' = "loop" /\ idx' = idx + 1)]_vars

\* some file of the batch failed
ItemFailed == \E i \in 1..Len(log) : log[i] \in {"False", "raise"}

\* C9: a directory import exits non-zero if and only if an item failed; with
\* nothing to do (every file skipped, or no file found) it exits zero.
C9_ExitNonZeroIffFailed ==
    (pc = "done" /\ call.op \in {"scan", "dir", "summary"} /\ call.exists)
        => ((exit # 0) <=> ItemFailed)

LatLon(points) ==
    [i \in 1..Len(points) |-> <<NumVal(points[i].lat), NumVal(points[i].lon)>>]

\* C10: for a sample sequence of length at least 2, decoding the encoded text
\* gives the (lat, lon) pairs of the samples, in order.
C10_RoundTrip ==
    (pc = "decoded" /\ Len(samples) >= 2) => decoded = LatLon(samples)

\* two different samples, latitude unlike longitude, were encoded and decoded
C10_Witness ==
    /\ pc = "decoded"
    /\ Len(samples) = 2
    /\ samples[1] # samples[2]
    /\ NumVal(samples[1].lat) # NumVal(samples[1].lon)
    /\ decoded = LatLon(samples)

\* C11: points_to_linestring returns None for every sample sequence of
\* length 0 or 1, and parse_linestring returns the empty list for None and
\* for the empty text.
C11_NullBelowTwoEmptyForNull ==
    /\ (call.op = "none" /\ pc \in {"encoded", "decoded"} /\ Len(samples) < 2)
           => wkt = None
    /\ (pc = "decoded" /\ (wkt = None \/ wkt = << >>)) => decoded = << >>

\* one sample was encoded to None, and None decoded to the empty list
C11_Witness ==
    /\ call.op = "none" /\ pc = "decoded"
    /\ Len(samples) = 1
    /\ wkt = None /\ decoded = << >>

\* the samples the filter of the import retains, in input order
Retained(c) == KeepPoints(c.content.features)

\* the timestamps of ps never decrease, as str
NonDecreasing(ps) ==
    \A i, j \in 1..Len(ps) : i < j => ~StrLess(ps[j].time, ps[i].time)

\* the arrangements of the retained samples in non-decreasing time order
SortedArrangements(kept) ==
    {ps \in {[i \in 1..Len(kept) |-> kept[f[i]]] : f \in Perms(1..Len(kept))} :
        NonDecreasing(ps)}

\* C12: the geometry a newly inserted record holds encodes a permutation of
\* the retained samples in non-decreasing str order of their timestamps,
\* whatever order the features had in the file.
C12_GeometryInTimeOrder ==
    [][\A r \in store' \ store :
          \E ps \in SortedArrangements(Retained(call')) :
              r.geometry = points_to_linestring(ps)]_vars

\* three samples given latest first were stored earliest first
C12_Witness ==
    /\ IsImport(call) /\ result = "True"
    /\ Len(Retained(call)) = 3
    /\ StrLess(Retained(call)[3].time, Retained(call)[2].time)
    /\ StrLess(Retained(call)[2].time, Retained(call)[1].time)
    /\ \E r \in store :
          r.geometry = points_to_linestring(
              <<Retained(call)[3], Retained(call)[2], Retained(call)[1]>>)

\* the timestamps of the retained samples
TimesOf(kept) == {kept[i].time : i \in 1..Len(kept)}

\* C18: start_time of a newly inserted record is the least and end_time the
\* greatest timestamp, as str, of the retained samples, so start_time is not
\* after end_time.
C18_StartMinEndMax ==
    [][\A r \in store' \ store :
          LET times == TimesOf(Retained(call'))
          IN /\ r.start_time \in times
             /\ r.end_time \in times
             /\ \A t \in times : ~StrLess(t, r.start_time) /\ ~StrLess(r.end_time, t)
             /\ ~StrLess(r.end_time, r.start_time)]_vars

\* a record made from samples given neither earliest first nor latest last
C18_Witness ==
    /\ IsImport(call) /\ result = "True"
    /\ Len(Retained(call)) = 3
    /\ StrLess(Retained(call)[2].time, Retained(call)[1].time)
    /\ StrLess(Retained(call)[3].time, Retained(call)[2].time)
    /\ \E r \in store :
          /\ r.start_time = Retained(call)[3].time
          /\ r.end_time = Retained(call)[1].time

\* C20 as claimed: the geometry of a newly inserted record encodes each
\* distinct retained sample once, however often the file repeats it.
C20_GeometryDeduplicated ==
    [][\A r \in store' \ store :
          \E ps \in Perms(Range(Retained(call'))) :
              r.geometry = points_to_linestring(ps)]_vars

\* C13: generate_year_colors gives the year of rank i (from 0) among the
\* distinct years in ascending order the color palette[i mod 7]: the mapping
\* is a function of the set of years, not of the order they come in.
C13_ColorByRank ==
    pc = "colored" =>
        /\ DOMAIN year_colors = Range(years)
        /\ \A y \in Range(years) :
              year_colors[y] =
                  COLORBLIND_PALETTE[(Cardinality({z \in Range(years) : z < y}) % 7) + 1]

\* eight years enumerated latest first: the latest has rank 7 and the first
\* color again
C13_Witness ==
    /\ pc = "colored"
    /\ Len(years) = 8
    /\ \A i \in 2..Len(years) : years[i] < years[i - 1]
    /\ year_colors[years[1]] = COLORBLIND_PALETTE[1]
    /\ year_colors[years[8]] = COLORBLIND_PALETTE[1]

\* the coordinates the geometry of a stored record decodes to
CoordsOf(r) == Range(parse_linestring(r.geometry))

Lats(cs) == {c[1] : c \in cs}
Lons(cs) == {c[2] : c \in cs}

\* c lies inside the box, its sides included
Inside(c, box) ==
    /\ ~NumLess(c[1], box[1][1]) /\ ~NumLess(box[2][1], c[1])
    /\ ~NumLess(c[2], box[1][2]) /\ ~NumLess(box[2][2], c[2])

\* C14: the box calculate_bounds returns is [[min lat, min lon], [max lat,
\* max lon]] over every decoded coordinate of every record, so every
\* coordinate of every track drawn lies inside it.
C14_BoundsCoverAllCoordinates ==
    (pc = "done" /\ bounds # None) =>
        LET all == UNION {CoordsOf(r) : r \in store}
        IN /\ bounds[1][1] \in Lats(all) /\ bounds[2][1] \in Lats(all)
           /\ bounds[1][2] \in Lons(all) /\ bounds[2][2] \in Lons(all)
           /\ \A c \in all : Inside(c, bounds)
           /\ \A i \in 1..Len(tracks) :
                 \A c \in Range(tracks[i].locations) : Inside(c, bounds)

\* two tracks drawn, the least latitude from one and the least longitude
\* from the other
C14_Witness ==
    /\ pc = "done" /\ saved
    /\ \E i, j \in 1..Len(tracks) :
          /\ bounds[1][1] \in Lats(Range(tracks[i].locations))
          /\ bounds[1][1] \notin Lats(Range(tracks[j].locations))
          /\ bounds[1][2] \in Lons(Range(tracks[j].locations))
          /\ bounds[1][2] \notin Lons(Range(tracks[i].locations))

\* C15: a render of a store in which no record decodes to any coordinate
\* ends with main's exit status 1, nothing drawn and no map saved.
C15_NoCoordinatesFatal ==
    (pc = "done" /\ call.op = "render"
     /\ \A r \in store : parse_linestring(r.geometry) = << >>)
        => (result = "False" /\ exit # 0 /\ ~saved /\ tracks = << >>)

\* a render of rows whose geometry is a text, none with a coordinate
C15_Witness ==
    /\ pc = "done" /\ call.op = "render"
    /\ Len(deployments) >= 2
    /\ \A r \in store : parse_linestring(r.geometry) = << >>
    /\ exit = 1 /\ ~saved

\* the records of year y whose track is drawn
Included(y) ==
    {r \in store : r.year = y /\ r.geometry # None
                   /\ parse_linestring(r.geometry) # << >>}

\* C19 as claimed: the count the legend shows for a year is the number of
\* records of that year whose track is drawn.
C19_LegendCountsDrawnTracks ==
    (pc = "done" /\ saved) =>
        \A y \in DOMAIN year_counts : year_counts[y] = Cardinality(Included(y))

\* the text starts with 'LINESTRING(' and ends with ')'
HasEnvelope(t) ==
    /\ StartsWith(t, LINESTRING)
    /\ Len(t) > Len(LINESTRING) /\ t[Len(t)] = ")"

\* the ', '-separated pairs between the envelope; none when nothing is there
PairsOf(t) ==
    LET inner == SubSeq(t, Len(LINESTRING) + 1, Len(t) - 1)
    IN IF inner = << >> THEN << >> ELSE Split(inner, <<",", " ">>)

\* C16 as claimed: parse_linestring returns the empty list, and does not
\* raise, for every text without the 'LINESTRING(' in front or without the
\* ')' behind.
C16_NoEnvelopeEmpty ==
    (pc = "decoded" /\ call.op = "text" /\ wkt # None /\ ~HasEnvelope(wkt))
        => decoded = << >>

\* C17 as claimed: for a text with the envelope, parse_linestring returns
\* one coordinate for each ', '-separated pair or raises; it never leaves a
\* pair out.
C17_AllPairsOrFailure ==
    (pc = "decoded" /\ call.op = "text" /\ wkt # None /\ HasEnvelope(wkt))
        => (decoded = ValueError \/ Len(decoded) = Len(PairsOf(wkt)))

\* the stored records whose identity is not the one of the import
OtherRows(rows, c) ==
    IF HasIdentity(c) THEN {r \in rows : RowKey(r) # KeyOf(c)} ELSE rows

\* C22: an import, whatever its mode and outcome, leaves every stored record
\* of another identity as it was, its id included, and adds none.
C22_OtherIdentitiesUntouched ==
    [][IsImport(call') => OtherRows(store', call') = OtherRows(store, call')]_vars

\* an override import deleted the record of its identity; the record of
\* another identity is still stored
C22_Witness ==
    /\ IsImport(call) /\ HasIdentity(call) /\ call.force
    /\ issued = {1, 2}
    /\ RowsOf(store, KeyOf(call)) = {}
    /\ Cardinality(OtherRows(store, call)) = 1

\* the input of the import has nothing to insert: unreadable, or no sample
NothingToInsert(c) == ~Readable(c) \/ ValidSamples(c) = << >>

\* C23: without override, an import of an identity already stored returns
\* the skipped outcome before the file is read: also for a file that is
\* unreadable or has no valid sample, and with nothing written.
C23_SkipBeforeRead ==
    [][(/\ IsImport(call') /\ HasIdentity(call') /\ ~call'.force
        /\ RowsOf(store, KeyOf(call')) # {}
        /\ NothingToInsert(call'))
       => (result' = "None" /\ exit' = 0 /\ store' = store /\ seq' = seq)]_vars

\* a file without any valid sample was skipped as a duplicate
C23_Witness ==
    /\ IsImport(call) /\ HasIdentity(call) /\ ~call.force
    /\ Readable(call) /\ ValidSamples(call) = << >>
    /\ RowsOf(store, KeyOf(call)) # {}
    /\ result = "None" /\ exit = 0

\* invocation p inserts while a record of its identity is stored
InsertsDuplicate(p) ==
    /\ procs[p].pc = "insert" /\ procs'[p].pc = "done"
    /\ parse_geojson(procs[p].content) # << >>
    /\ RowsOf(store, PathKey(procs[p].path)) # {}

\* C21: in every interleaving of two invocations the store never holds two
\* records with the same (name, region, year): an INSERT that comes after
\* another one of the same identity, both having passed the existence check,
\* is rejected and leaves the store as it was.
C21_UniqueUnderRace ==
    /\ [](\A r1, r2 \in store : RowKey(r1) = RowKey(r2) => r1.id = r2.id)
    /\ [][\A p \in Procs :
             InsertsDuplicate(p) => (store' = store /\ procs'[p].result = "raise")]_vars

\* both invocations passed the check for one identity; the first INSERT
\* was done, the second rejected, and one record is stored
C21_Witness ==
    /\ procs # NoProcs
    /\ procs[1].pc = "done" /\ procs[2].pc = "done"
    /\ PathHasIdentity(procs[1].path) /\ PathHasIdentity(procs[2].path)
    /\ PathKey(procs[1].path) = PathKey(procs[2].path)
    /\ procs[1].result = "True" /\ procs[2].result = "raise"
    /\ Cardinality(RowsOf(store, PathKey(procs[1].path))) = 1

====
